---- MODULE Spec2Model ----
(***************************************************************************)
(* Model of bot-lib/strategies/bet-strategy.module.js: the three async     *)
(* strategies betDownStrategy, betUpStrategy and claimStrategy, and the    *)
(* receipt normalizer parseTransactionReceipt they share.                  *)
(*                                                                         *)
(* Each strategy invocation is a task.  A task runs synchronously from     *)
(* one await to the next (JavaScript run-to-completion), so every action   *)
(* below is one such synchronous segment; the collaborator's answer        *)
(* (resolve with a value, or reject) is the input of the segment that      *)
(* follows the await.                                                      *)
(*                                                                         *)
(* JavaScript numbers are modelled as exact decimals [m, e] standing for   *)
(* m * 10^e, kept normalised (no trailing zero in m, zero is [0, 0]).      *)
(***************************************************************************)
EXTENDS Integers, Sequences, FiniteSets, TLC

\* ------------------------------------------------------------------ bounds
\* Number of strategy invocations (tasks) that may be in flight together.
NumTasks == 2

Tasks == 1..NumTasks

\* ----------------------------------------------------------------- numbers
RECURSIVE Pow10(_)
Pow10(n) == IF n <= 0 THEN 1 ELSE 10 * Pow10(n - 1)

RECURSIVE Norm(_, _)
Norm(m, e) ==
    IF m = 0 THEN [m |-> 0, e |-> 0]
    ELSE IF m % 10 = 0 THEN Norm(m \div 10, e + 1)
    ELSE [m |-> m, e |-> e]

Num(m, e) == Norm(m, e)

Zero == Num(0, 0)

MinInt(a, b) == IF a <= b THEN a ELSE b

\* JavaScript a * b
Mul(a, b) == Norm(a.m * b.m, a.e + b.e)

\* JavaScript a - b
Sub(a, b) ==
    LET e == MinInt(a.e, b.e)
    IN  Norm(a.m * Pow10(a.e - e) - b.m * Pow10(b.e - e), e)

\* ------------------------------------------------------------ collaborators
BET_DOWN == "BET_DOWN"
BET_UP == "BET_UP"

\* Unit used by formatUnit when the caller passes none (formatUnit(epoch) is
\* the display form of the round, so the raw value is kept).
DefaultUnit == 0

\* utils.module formatUnit(value, unit): the raw base-unit value scaled down
\* by 10^unit.
formatUnit(value, unit) == Norm(value.m, value.e - unit)

\* Price of one unit of crypto in USD, and its inverse (250 and 1/250).
CryptoUsdPrice == Num(25, 1)
UsdCryptoPrice == Num(4, -3)

\* utils.module parseFromUsdToCrypto(usd)
parseFromUsdToCrypto(usd) == Mul(usd, UsdCryptoPrice)

\* utils.module parseFeeFromCryptoToUsd(fee)
parseFeeFromCryptoToUsd(fee) == Mul(fee, CryptoUsdPrice)

\* ------------------------------------------------------------------ inputs
Epochs == {Num(7, 0), Num(8, 0)}

\* Values getBetAmount() can be configured to (USD).
BetAmounts == {Num(5, 0), Num(1, 1)}

\* Values the simulated balance can start from (USD).
InitialBalances == {Num(1, 2), Num(505, -1)}

GasUsedValues == {Num(21, 3), Num(1, 5)}
GasPriceValues == {Num(5, 9), Num(3, 9)}

\* success/failure shape, and the same fields with the exception flag set
FullReceipts ==
    [status : {0, 1}, gasUsed : GasUsedValues,
     effectiveGasPrice : GasPriceValues, transactionExeption : BOOLEAN]

\* exception shape without gas fields
BareExceptionReceipts == [status : {0, 1}, transactionExeption : {TRUE}]

Receipts == FullReceipts \cup BareExceptionReceipts

\* Values claimRewards can resolve with.
ClaimResults ==
    {[status |-> 1, txGasFee |-> Num(2, -4), transactionExeption |-> FALSE],
     [status |-> 0, txGasFee |-> Zero, transactionExeption |-> TRUE]}

\* ------------------------------------------------------- receipt normalizer
parseTransactionReceipt_feeForcedWhenReverted(txReceipt) ==
    LET betExecuted == txReceipt.status = 1
    IN  IF txReceipt.transactionExeption \/ ~betExecuted
        THEN [betExecuted |-> betExecuted, txGasFee |-> Zero]
        ELSE LET gasUsed == formatUnit(txReceipt.gasUsed, DefaultUnit)
                 effectiveGasPrice == formatUnit(txReceipt.effectiveGasPrice, DefaultUnit)
                 txGasFee == formatUnit(Mul(gasUsed, effectiveGasPrice), 18)
             IN  [betExecuted |-> txReceipt.status = 1, txGasFee |-> txGasFee]

parseTransactionReceipt_exceptionNotExecuted(txReceipt) ==
    IF txReceipt.transactionExeption
    THEN [betExecuted |-> FALSE, txGasFee |-> Zero]
    ELSE LET gasUsed == formatUnit(txReceipt.gasUsed, DefaultUnit)
             effectiveGasPrice == formatUnit(txReceipt.effectiveGasPrice, DefaultUnit)
             txGasFee == formatUnit(Mul(gasUsed, effectiveGasPrice), 18)
         IN  [betExecuted |-> txReceipt.status = 1, txGasFee |-> txGasFee]

parseTransactionReceipt_unformattedProduct(txReceipt) ==
    LET betExecuted == txReceipt.status = 1
    IN  IF txReceipt.transactionExeption
        THEN [betExecuted |-> betExecuted, txGasFee |-> Zero]
        ELSE LET gasUsed == formatUnit(txReceipt.gasUsed, DefaultUnit)
                 effectiveGasPrice == formatUnit(txReceipt.effectiveGasPrice, DefaultUnit)
                 txGasFee == Mul(gasUsed, effectiveGasPrice)
             IN  [betExecuted |-> txReceipt.status = 1, txGasFee |-> txGasFee]

parseTransactionReceipt(txReceipt) ==
    LET betExecuted == txReceipt.status = 1
    IN  IF txReceipt.transactionExeption
        THEN [betExecuted |-> betExecuted, txGasFee |-> Zero]
        ELSE LET gasUsed == formatUnit(txReceipt.gasUsed, DefaultUnit)
                 effectiveGasPrice == formatUnit(txReceipt.effectiveGasPrice, DefaultUnit)
                 txGasFee == formatUnit(Mul(gasUsed, effectiveGasPrice), 18)
             IN  [betExecuted |-> txReceipt.status = 1, txGasFee |-> txGasFee]

\* ------------------------------------------------------------------- state
VARIABLES
    SIMULATION_MODE,    \* GLOBAL_CONFIG.SIMULATION_MODE
    CLAIM_REWARDS,      \* GLOBAL_CONFIG.CLAIM_REWARDS
    betAmount,          \* what getBetAmount() returns (USD)
    simulationBalance,  \* wallet.module's fictitious balance (USD)
    task                \* per invocation: position, locals, observed events

vars == <<SIMULATION_MODE, CLAIM_REWARDS, betAmount, simulationBalance, task>>

NoTransaction == [betExecuted |-> FALSE, txGasFee |-> Zero]

IdleTask ==
    [pc |-> "idle", fn |-> "none", epoch |-> Zero,
     cryptoBetAmount |-> Zero, transaction |-> NoTransaction,
     amountAtCall |-> Zero, balanceAtCall |-> Zero, simulated |-> FALSE,
     claimRewardsAtCall |-> FALSE, simulationModeAtCall |-> FALSE,
     trace |-> <<>>, outcome |-> "pending", result |-> FALSE]

Init ==
    /\ SIMULATION_MODE \in BOOLEAN
    /\ CLAIM_REWARDS \in BOOLEAN
    /\ betAmount \in BetAmounts
    /\ simulationBalance \in InitialBalances
    /\ task = [p \in Tasks |-> IdleTask]

\* ----------------------------------------------------------- bet strategies
\* line 26 / 44: the value handed to updateSimulationBalance
NewSimulationBalance_stakeOnly(balance, amount, transaction) ==
    Sub(balance, amount)

NewSimulationBalance_onlyWhenExecuted(balance, amount, transaction) ==
    IF transaction.betExecuted
    THEN Sub(Sub(balance, amount), parseFeeFromCryptoToUsd(transaction.txGasFee))
    ELSE balance

NewSimulationBalance(balance, amount, transaction) ==
    Sub(Sub(balance, amount), parseFeeFromCryptoToUsd(transaction.txGasFee))

\* line 28 / 46: the record handed to saveRoundInHistory
BetRecord_wrongDirection(epoch, cryptoBetAmount, bet, transaction) ==
    [round |-> formatUnit(epoch, DefaultUnit), betAmount |-> cryptoBetAmount,
     bet |-> BET_DOWN, betExecuted |-> transaction.betExecuted,
     txGasFee |-> transaction.txGasFee]

BetRecord_noFeeWhenSimulated(epoch, cryptoBetAmount, bet, transaction) ==
    [round |-> formatUnit(epoch, DefaultUnit), betAmount |-> cryptoBetAmount,
     bet |-> bet, betExecuted |-> transaction.betExecuted,
     txGasFee |-> IF SIMULATION_MODE THEN Zero ELSE transaction.txGasFee]

BetRecord(epoch, cryptoBetAmount, bet, transaction) ==
    [round |-> formatUnit(epoch, DefaultUnit), betAmount |-> cryptoBetAmount,
     bet |-> bet, betExecuted |-> transaction.betExecuted,
     txGasFee |-> transaction.txGasFee]

ContractFn(bet) == IF bet = BET_DOWN THEN "betDown" ELSE "betUp"
StrategyFn(bet) == IF bet = BET_DOWN THEN "betDownStrategy" ELSE "betUpStrategy"
BetOf(fn) == IF fn = "betDownStrategy" THEN BET_DOWN ELSE BET_UP
IsBet(p) == task[p].fn \in {"betDownStrategy", "betUpStrategy"}

\* Invocations take the task slots in order: slot p is the p-th invocation
\* started.
IsNextFree(p) ==
    /\ task[p].pc = "idle"
    /\ \A q \in Tasks : q < p => task[q].pc # "idle"

\* Lines 23-24 / 41-42 up to the await: read the configured amount, convert
\* it, and submit the directional contract call.
BetCall_deduplicated(p, bet, epoch) ==
    /\ IsNextFree(p)
    /\ LET cryptoBetAmount == parseFromUsdToCrypto(betAmount)
           duplicate == \E q \in Tasks :
                            /\ task[q].pc \in {"awaitBet", "awaitHistory"}
                            /\ task[q].epoch = epoch
       IN  IF duplicate
           THEN task' = [task EXCEPT ![p] =
                    [@ EXCEPT !.pc = "done",
                              !.fn = StrategyFn(bet),
                              !.epoch = epoch,
                              !.outcome = "returned",
                              !.result = FALSE]]
           ELSE task' = [task EXCEPT ![p] =
                    [@ EXCEPT !.pc = "awaitBet",
                              !.fn = StrategyFn(bet),
                              !.epoch = epoch,
                              !.cryptoBetAmount = cryptoBetAmount,
                              !.amountAtCall = betAmount,
                              !.balanceAtCall = simulationBalance,
                          !.simulationModeAtCall = SIMULATION_MODE,
                              !.trace = <<[op |-> ContractFn(bet),
                                           args |-> <<cryptoBetAmount, epoch>>]>>]]
    /\ UNCHANGED <<SIMULATION_MODE, CLAIM_REWARDS, betAmount, simulationBalance>>

BetCall(p, bet, epoch) ==
    /\ IsNextFree(p)
    /\ LET cryptoBetAmount == parseFromUsdToCrypto(betAmount)
       IN  task' = [task EXCEPT ![p] =
                [@ EXCEPT !.pc = "awaitBet",
                          !.fn = StrategyFn(bet),
                          !.epoch = epoch,
                          !.cryptoBetAmount = cryptoBetAmount,
                          !.amountAtCall = betAmount,
                          !.balanceAtCall = simulationBalance,
                          !.simulationModeAtCall = SIMULATION_MODE,
                          !.trace = <<[op |-> ContractFn(bet),
                                       args |-> <<cryptoBetAmount, epoch>>]>>]]
    /\ UNCHANGED <<SIMULATION_MODE, CLAIM_REWARDS, betAmount, simulationBalance>>

\* Lines 24-28 / 42-46 from the resolved await to the next one: normalise the
\* receipt, update the simulated balance in simulation mode, and start the
\* history append.
BetResume_alwaysUpdates(p, txReceipt) ==
    /\ task[p].pc = "awaitBet"
    /\ LET t == task[p]
           transaction == parseTransactionReceipt(txReceipt)
           newBalance == NewSimulationBalance(simulationBalance, betAmount, transaction)
           record == BetRecord(t.epoch, t.cryptoBetAmount, BetOf(t.fn), transaction)
           resolved == [op |-> "resolved", value |-> txReceipt]
           update == [op |-> "updateSimulationBalance", value |-> newBalance,
                      read |-> simulationBalance, amount |-> betAmount]
           save == [op |-> "saveRoundInHistory", args |-> << <<record>> >>]
       IN  /\ simulationBalance' = newBalance
           /\ task' = [task EXCEPT ![p] =
                [@ EXCEPT !.pc = "awaitHistory",
                          !.transaction = transaction,
                          !.simulated = SIMULATION_MODE,
                          !.trace = t.trace \o <<resolved, update, save>>]]
    /\ UNCHANGED <<SIMULATION_MODE, CLAIM_REWARDS, betAmount>>

\* the balance is read before the await and written after it
BetResume_staleRead(p, txReceipt) ==
    /\ task[p].pc = "awaitBet"
    /\ LET t == task[p]
           transaction == parseTransactionReceipt(txReceipt)
           newBalance == NewSimulationBalance(t.balanceAtCall, betAmount, transaction)
           record == BetRecord(t.epoch, t.cryptoBetAmount, BetOf(t.fn), transaction)
           resolved == [op |-> "resolved", value |-> txReceipt]
           update == [op |-> "updateSimulationBalance", value |-> newBalance,
                      read |-> t.balanceAtCall, amount |-> betAmount]
           save == [op |-> "saveRoundInHistory", args |-> << <<record>> >>]
       IN  /\ simulationBalance' =
                 IF SIMULATION_MODE THEN newBalance ELSE simulationBalance
           /\ task' = [task EXCEPT ![p] =
                [@ EXCEPT !.pc = "awaitHistory",
                          !.transaction = transaction,
                          !.simulated = SIMULATION_MODE,
                          !.trace = t.trace \o <<resolved>>
                                    \o (IF SIMULATION_MODE THEN <<update>> ELSE <<>>)
                                    \o <<save>>]]
    /\ UNCHANGED <<SIMULATION_MODE, CLAIM_REWARDS, betAmount>>

\* the history append is started before the balance is updated
BetResume_savesBeforeUpdate(p, txReceipt) ==
    /\ task[p].pc = "awaitBet"
    /\ LET t == task[p]
           transaction == parseTransactionReceipt(txReceipt)
           newBalance == NewSimulationBalance(simulationBalance, betAmount, transaction)
           record == BetRecord(t.epoch, t.cryptoBetAmount, BetOf(t.fn), transaction)
           resolved == [op |-> "resolved", value |-> txReceipt]
           update == [op |-> "updateSimulationBalance", value |-> newBalance,
                      read |-> simulationBalance, amount |-> betAmount]
           save == [op |-> "saveRoundInHistory", args |-> << <<record>> >>]
       IN  /\ simulationBalance' =
                 IF SIMULATION_MODE THEN newBalance ELSE simulationBalance
           /\ task' = [task EXCEPT ![p] =
                [@ EXCEPT !.pc = "awaitHistory",
                          !.transaction = transaction,
                          !.simulated = SIMULATION_MODE,
                          !.trace = t.trace \o <<resolved, save>>
                                    \o (IF SIMULATION_MODE THEN <<update>> ELSE <<>>)]]
    /\ UNCHANGED <<SIMULATION_MODE, CLAIM_REWARDS, betAmount>>

\* the flag is the one seen when the strategy was called
BetResume_cachedFlag(p, txReceipt) ==
    /\ task[p].pc = "awaitBet"
    /\ LET t == task[p]
           transaction == parseTransactionReceipt(txReceipt)
           newBalance == NewSimulationBalance(simulationBalance, betAmount, transaction)
           record == BetRecord(t.epoch, t.cryptoBetAmount, BetOf(t.fn), transaction)
           resolved == [op |-> "resolved", value |-> txReceipt]
           update == [op |-> "updateSimulationBalance", value |-> newBalance,
                      read |-> simulationBalance, amount |-> betAmount]
           save == [op |-> "saveRoundInHistory", args |-> << <<record>> >>]
       IN  /\ simulationBalance' =
                 IF t.simulationModeAtCall THEN newBalance ELSE simulationBalance
           /\ task' = [task EXCEPT ![p] =
                [@ EXCEPT !.pc = "awaitHistory",
                          !.transaction = transaction,
                          !.simulated = t.simulationModeAtCall,
                          !.trace = t.trace \o <<resolved>>
                                    \o (IF t.simulationModeAtCall THEN <<update>> ELSE <<>>)
                                    \o <<save>>]]
    /\ UNCHANGED <<SIMULATION_MODE, CLAIM_REWARDS, betAmount>>

BetResume(p, txReceipt) ==
    /\ task[p].pc = "awaitBet"
    /\ LET t == task[p]
           transaction == parseTransactionReceipt(txReceipt)
           newBalance == NewSimulationBalance(simulationBalance, betAmount, transaction)
           record == BetRecord(t.epoch, t.cryptoBetAmount, BetOf(t.fn), transaction)
           resolved == [op |-> "resolved", value |-> txReceipt]
           update == [op |-> "updateSimulationBalance", value |-> newBalance,
                      read |-> simulationBalance, amount |-> betAmount]
           save == [op |-> "saveRoundInHistory", args |-> << <<record>> >>]
       IN  /\ simulationBalance' =
                 IF SIMULATION_MODE THEN newBalance ELSE simulationBalance
           /\ task' = [task EXCEPT ![p] =
                [@ EXCEPT !.pc = "awaitHistory",
                          !.transaction = transaction,
                          !.simulated = SIMULATION_MODE,
                          !.trace = t.trace \o <<resolved>>
                                    \o (IF SIMULATION_MODE THEN <<update>> ELSE <<>>)
                                    \o <<save>>]]
    /\ UNCHANGED <<SIMULATION_MODE, CLAIM_REWARDS, betAmount>>

\* The awaited betDown / betUp rejects: nothing catches it (lines 24 / 42).
BetRejected_returnsFalse(p) ==
    /\ task[p].pc = "awaitBet"
    /\ task' = [task EXCEPT ![p] =
            [@ EXCEPT !.pc = "done", !.outcome = "returned",
                      !.result = FALSE,
                      !.trace = @ \o <<[op |-> "rejected"]>>]]
    /\ UNCHANGED <<SIMULATION_MODE, CLAIM_REWARDS, betAmount, simulationBalance>>

\* the contract call is submitted a second time after a first rejection
BetRejected_resubmitsOnce(p) ==
    /\ task[p].pc = "awaitBet"
    /\ IF Len(task[p].trace) = 1
       THEN task' = [task EXCEPT ![p] =
                [@ EXCEPT !.trace = @ \o <<task[p].trace[1]>>]]
       ELSE task' = [task EXCEPT ![p] =
                [@ EXCEPT !.pc = "done", !.outcome = "rejected",
                          !.trace = @ \o <<[op |-> "rejected"]>>]]
    /\ UNCHANGED <<SIMULATION_MODE, CLAIM_REWARDS, betAmount, simulationBalance>>

BetRejected(p) ==
    /\ task[p].pc = "awaitBet"
    /\ task' = [task EXCEPT ![p] =
            [@ EXCEPT !.pc = "done", !.outcome = "rejected",
                      !.trace = @ \o <<[op |-> "rejected"]>>]]
    /\ UNCHANGED <<SIMULATION_MODE, CLAIM_REWARDS, betAmount, simulationBalance>>

\* Lines 28-29 / 46-47: the history append resolved; return betExecuted.
HistoryResolved_returnsTrue(p) ==
    /\ task[p].pc = "awaitHistory"
    /\ task' = [task EXCEPT ![p] =
            [@ EXCEPT !.pc = "done", !.outcome = "returned",
                      !.result = TRUE,
                      !.trace = @ \o <<[op |-> "resolved"]>>]]
    /\ UNCHANGED <<SIMULATION_MODE, CLAIM_REWARDS, betAmount, simulationBalance>>

\* the history append is awaited a second time before returning
HistoryResolved_thirdAwait(p) ==
    /\ task[p].pc = "awaitHistory"
    /\ IF Len(task[p].trace) < 6
       THEN task' = [task EXCEPT ![p] =
                [@ EXCEPT !.trace = @ \o <<[op |-> "resolved"],
                                           [op |-> "saveRoundInHistory",
                                            args |-> << <<>> >>]>>]]
       ELSE task' = [task EXCEPT ![p] =
                [@ EXCEPT !.pc = "done", !.outcome = "returned",
                          !.result = task[p].transaction.betExecuted,
                          !.trace = @ \o <<[op |-> "resolved"]>>]]
    /\ UNCHANGED <<SIMULATION_MODE, CLAIM_REWARDS, betAmount, simulationBalance>>

HistoryResolved(p) ==
    /\ task[p].pc = "awaitHistory"
    /\ task' = [task EXCEPT ![p] =
            [@ EXCEPT !.pc = "done", !.outcome = "returned",
                      !.result = task[p].transaction.betExecuted,
                      !.trace = @ \o <<[op |-> "resolved"]>>]]
    /\ UNCHANGED <<SIMULATION_MODE, CLAIM_REWARDS, betAmount, simulationBalance>>

\* The awaited saveRoundInHistory rejects: nothing catches it (lines 28 / 46).
HistoryRejected_swallowed(p) ==
    /\ task[p].pc = "awaitHistory"
    /\ task' = [task EXCEPT ![p] =
            [@ EXCEPT !.pc = "done", !.outcome = "returned",
                      !.result = task[p].transaction.betExecuted,
                      !.trace = @ \o <<[op |-> "rejected"]>>]]
    /\ UNCHANGED <<SIMULATION_MODE, CLAIM_REWARDS, betAmount, simulationBalance>>

\* the balance update is undone when the history append rejects
HistoryRejected_rollsBack(p) ==
    /\ task[p].pc = "awaitHistory"
    /\ task' = [task EXCEPT ![p] =
            [@ EXCEPT !.pc = "done", !.outcome = "rejected",
                      !.trace = @ \o <<[op |-> "rejected"]>>]]
    /\ simulationBalance' = task[p].balanceAtCall
    /\ UNCHANGED <<SIMULATION_MODE, CLAIM_REWARDS, betAmount>>

HistoryRejected(p) ==
    /\ task[p].pc = "awaitHistory"
    /\ task' = [task EXCEPT ![p] =
            [@ EXCEPT !.pc = "done", !.outcome = "rejected",
                      !.trace = @ \o <<[op |-> "rejected"]>>]]
    /\ UNCHANGED <<SIMULATION_MODE, CLAIM_REWARDS, betAmount, simulationBalance>>

\* ----------------------------------------------------------- claim strategy
\* line 62: the fictitious transaction returned when nothing is claimed
NoClaim == [status |-> 0, txGasFee |-> Zero]

\* Line 59 up to the await, or lines 59 and 62 when CLAIM_REWARDS is false
\* (&& does not evaluate its right operand).
ClaimCall_alwaysChecks(p, epoch) ==
    /\ IsNextFree(p)
    /\ task' = [task EXCEPT ![p] =
            [@ EXCEPT !.pc = "awaitClaimable",
                      !.fn = "claimStrategy",
                      !.epoch = epoch,
                      !.claimRewardsAtCall = CLAIM_REWARDS,
                      !.trace = <<[op |-> "isClaimableRound",
                                   args |-> <<epoch>>]>>]]
    /\ UNCHANGED <<SIMULATION_MODE, CLAIM_REWARDS, betAmount, simulationBalance>>

ClaimCall(p, epoch) ==
    /\ IsNextFree(p)
    /\ IF CLAIM_REWARDS
       THEN task' = [task EXCEPT ![p] =
                [@ EXCEPT !.pc = "awaitClaimable",
                          !.fn = "claimStrategy",
                          !.epoch = epoch,
                          !.claimRewardsAtCall = TRUE,
                          !.trace = <<[op |-> "isClaimableRound",
                                       args |-> <<epoch>>]>>]]
       ELSE task' = [task EXCEPT ![p] =
                [@ EXCEPT !.pc = "done",
                          !.fn = "claimStrategy",
                          !.epoch = epoch,
                          !.claimRewardsAtCall = FALSE,
                          !.outcome = "returned",
                          !.result = NoClaim]]
    /\ UNCHANGED <<SIMULATION_MODE, CLAIM_REWARDS, betAmount, simulationBalance>>

\* Lines 59-62 from the resolved isClaimableRound: claim, or return the
\* fictitious transaction.
ClaimableResolved_ignoresAnswer(p, claimable) ==
    /\ task[p].pc = "awaitClaimable"
    /\ task' = [task EXCEPT ![p] =
            [@ EXCEPT !.pc = "awaitClaim",
                      !.trace = @ \o <<[op |-> "resolved", value |-> claimable],
                                       [op |-> "claimRewards",
                                        args |-> << <<task[p].epoch>> >>]>>]]
    /\ UNCHANGED <<SIMULATION_MODE, CLAIM_REWARDS, betAmount, simulationBalance>>

ClaimableResolved(p, claimable) ==
    /\ task[p].pc = "awaitClaimable"
    /\ IF claimable
       THEN task' = [task EXCEPT ![p] =
                [@ EXCEPT !.pc = "awaitClaim",
                          !.trace = @ \o <<[op |-> "resolved", value |-> claimable],
                                           [op |-> "claimRewards",
                                            args |-> << <<task[p].epoch>> >>]>>]]
       ELSE task' = [task EXCEPT ![p] =
                [@ EXCEPT !.pc = "done",
                          !.outcome = "returned",
                          !.result = NoClaim,
                          !.trace = @ \o <<[op |-> "resolved", value |-> claimable]>>]]
    /\ UNCHANGED <<SIMULATION_MODE, CLAIM_REWARDS, betAmount, simulationBalance>>

\* The awaited isClaimableRound rejects: nothing catches it (line 59).
ClaimableRejected(p) ==
    /\ task[p].pc = "awaitClaimable"
    /\ task' = [task EXCEPT ![p] =
            [@ EXCEPT !.pc = "done", !.outcome = "rejected",
                      !.trace = @ \o <<[op |-> "rejected"]>>]]
    /\ UNCHANGED <<SIMULATION_MODE, CLAIM_REWARDS, betAmount, simulationBalance>>

\* Line 60: claimRewards resolved; its value is returned as it is.
ClaimResolved_normalised(p, claimed) ==
    /\ task[p].pc = "awaitClaim"
    /\ task' = [task EXCEPT ![p] =
            [@ EXCEPT !.pc = "done", !.outcome = "returned",
                      !.result = [status |-> claimed.status,
                                  txGasFee |-> IF claimed.transactionExeption
                                               THEN Zero ELSE claimed.txGasFee,
                                  transactionExeption |-> FALSE],
                      !.trace = @ \o <<[op |-> "resolved", value |-> claimed]>>]]
    /\ UNCHANGED <<SIMULATION_MODE, CLAIM_REWARDS, betAmount, simulationBalance>>

ClaimResolved(p, claimed) ==
    /\ task[p].pc = "awaitClaim"
    /\ task' = [task EXCEPT ![p] =
            [@ EXCEPT !.pc = "done", !.outcome = "returned",
                      !.result = claimed,
                      !.trace = @ \o <<[op |-> "resolved", value |-> claimed]>>]]
    /\ UNCHANGED <<SIMULATION_MODE, CLAIM_REWARDS, betAmount, simulationBalance>>

\* The awaited claimRewards rejects: nothing catches it (line 60).
ClaimRejected(p) ==
    /\ task[p].pc = "awaitClaim"
    /\ task' = [task EXCEPT ![p] =
            [@ EXCEPT !.pc = "done", !.outcome = "rejected",
                      !.trace = @ \o <<[op |-> "rejected"]>>]]
    /\ UNCHANGED <<SIMULATION_MODE, CLAIM_REWARDS, betAmount, simulationBalance>>

\* ------------------------------------------------------------- environment
\* GLOBAL_CONFIG is a mutable object shared with the rest of the bot, and
\* getBetAmount() is evaluated at each call: their values can change between
\* any two synchronous segments.
SetSimulationMode(b) ==
    /\ SIMULATION_MODE # b
    /\ SIMULATION_MODE' = b
    /\ UNCHANGED <<CLAIM_REWARDS, betAmount, simulationBalance, task>>

SetClaimRewards(b) ==
    /\ CLAIM_REWARDS # b
    /\ CLAIM_REWARDS' = b
    /\ UNCHANGED <<SIMULATION_MODE, betAmount, simulationBalance, task>>

SetBetAmount(a) ==
    /\ betAmount # a
    /\ betAmount' = a
    /\ UNCHANGED <<SIMULATION_MODE, CLAIM_REWARDS, simulationBalance, task>>

\* ------------------------------------------------- what a task has observed
Events(p, ops) == SelectSeq(task[p].trace, LAMBDA ev : ev.op \in ops)

ContractCalls(p) ==
    Events(p, {"betDown", "betUp", "isClaimableRound", "claimRewards"})

HistoryCalls(p) == Events(p, {"saveRoundInHistory"})

BalanceUpdates(p) == Events(p, {"updateSimulationBalance"})

Responses(p) == Events(p, {"resolved", "rejected"})

IsClaim(p) == task[p].fn = "claimStrategy"

\* the awaited contract call of a bet task has resolved with a receipt
HasReceipt(p) ==
    /\ IsBet(p)
    /\ Len(task[p].trace) >= 2
    /\ task[p].trace[2].op = "resolved"

Receipt(p) == task[p].trace[2].value

\* the awaited isClaimableRound of a claim task has resolved
HasClaimable(p) ==
    /\ IsClaim(p)
    /\ Len(task[p].trace) >= 2
    /\ task[p].trace[2].op = "resolved"

Claimable(p) == task[p].trace[2].value

Returned(p) == task[p].pc = "done" /\ task[p].outcome = "returned"
Rejected(p) == task[p].pc = "done" /\ task[p].outcome = "rejected"

\* history.module saveRoundInHistory: the records of a bet task that the
\* history holds, which are those of an append that resolved.
Persisted(p) ==
    LET t == task[p].trace
        saved == {i \in 1..(Len(t) - 1) :
                    t[i].op = "saveRoundInHistory" /\ t[i + 1].op = "resolved"}
    IN  IF saved = {} THEN <<>> ELSE t[CHOOSE i \in saved : TRUE].args[1]

\* ----------------------------------------------------------- specification
\* One invocation, every input: the strategies as a caller that awaits each
\* invocation before the next sees them.
SoloTasks == {t \in Tasks : \A q \in Tasks : t <= q}

Next ==
    \/ \E p \in SoloTasks, epoch \in Epochs : BetCall(p, BET_DOWN, epoch)
    \/ \E p \in SoloTasks, epoch \in Epochs : BetCall(p, BET_UP, epoch)
    \/ \E p \in SoloTasks, txReceipt \in Receipts : BetResume(p, txReceipt)
    \/ \E p \in SoloTasks : BetRejected(p)
    \/ \E p \in SoloTasks : HistoryResolved(p)
    \/ \E p \in SoloTasks : HistoryRejected(p)
    \/ \E p \in SoloTasks, epoch \in Epochs : ClaimCall(p, epoch)
    \/ \E p \in SoloTasks, claimable \in BOOLEAN : ClaimableResolved(p, claimable)
    \/ \E p \in SoloTasks : ClaimableRejected(p)
    \/ \E p \in SoloTasks, claimed \in ClaimResults : ClaimResolved(p, claimed)
    \/ \E p \in SoloTasks : ClaimRejected(p)
    \/ \E b \in BOOLEAN : SetSimulationMode(b)
    \/ \E b \in BOOLEAN : SetClaimRewards(b)
    \/ \E a \in BetAmounts : SetBetAmount(a)

Spec == Init /\ [][Next]_vars

\* The collaborator call on which invocation p is suspended settles, with a
\* value or a rejection.
Answer(p) ==
    \/ \E txReceipt \in Receipts : BetResume(p, txReceipt)
    \/ BetRejected(p)
    \/ HistoryResolved(p)
    \/ HistoryRejected(p)
    \/ \E claimable \in BOOLEAN : ClaimableResolved(p, claimable)
    \/ ClaimableRejected(p)
    \/ \E claimed \in ClaimResults : ClaimResolved(p, claimed)
    \/ ClaimRejected(p)

\* Spec where every awaited collaborator call eventually settles.
LiveSpec == Init /\ [][Next]_vars /\ \A p \in SoloTasks : WF_vars(Answer(p))

\* Several invocations in flight together, on the inputs of ConcEpochs and
\* ConcReceipts: the strategies as a caller that does not await them sees
\* them.
ConcEpochs == {Num(7, 0)}

ConcReceipts ==
    {[status |-> 1, gasUsed |-> Num(21, 3), effectiveGasPrice |-> Num(5, 9),
      transactionExeption |-> FALSE],
     [status |-> 0, transactionExeption |-> TRUE]}

ConcClaimResults ==
    {[status |-> 1, txGasFee |-> Num(2, -4), transactionExeption |-> FALSE]}

\* The simulated balance before any invocation (USD).
ConcInitialBalance == Num(1, 2)

ConcInit ==
    /\ SIMULATION_MODE \in BOOLEAN
    /\ CLAIM_REWARDS = TRUE
    /\ betAmount = Num(5, 0)
    /\ simulationBalance = ConcInitialBalance
    /\ task = [p \in Tasks |-> IdleTask]

ConcNext ==
    \/ \E p \in Tasks, epoch \in ConcEpochs : BetCall(p, BET_DOWN, epoch)
    \/ \E p \in Tasks, epoch \in ConcEpochs : BetCall(p, BET_UP, epoch)
    \/ \E p \in Tasks, txReceipt \in ConcReceipts : BetResume(p, txReceipt)
    \/ \E p \in Tasks : BetRejected(p)
    \/ \E p \in Tasks : HistoryResolved(p)
    \/ \E p \in Tasks : HistoryRejected(p)
    \/ \E p \in Tasks, epoch \in ConcEpochs : ClaimCall(p, epoch)
    \/ \E p \in Tasks, claimable \in BOOLEAN : ClaimableResolved(p, claimable)
    \/ \E p \in Tasks : ClaimableRejected(p)
    \/ \E p \in Tasks, claimed \in ConcClaimResults : ClaimResolved(p, claimed)
    \/ \E p \in Tasks : ClaimRejected(p)
    \/ \E b \in BOOLEAN : SetSimulationMode(b)

ConcSpec == ConcInit /\ [][ConcNext]_vars

\* ------------------------------------------------------------------ claims
\* Reference values the claims compare the code's results with.
\* gasUsed * effectiveGasPrice / 10^18 of a receipt with gas fields
GasFeeOf(r) ==
    Norm(r.gasUsed.m * r.effectiveGasPrice.m,
         (r.gasUsed.e - DefaultUnit) + (r.effectiveGasPrice.e - DefaultUnit) - 18)

\* the fee of the normalised receipt, in USD
FiatFeeOf(r) ==
    IF r.transactionExeption THEN Zero
    ELSE Norm(GasFeeOf(r).m * CryptoUsdPrice.m, GasFeeOf(r).e + CryptoUsdPrice.e)

\* C1: a bet invocation that evaluates SIMULATION_MODE as true, started at
\* balance B with configured amount A still configured when the receipt
\* arrives, leaves the simulated balance at B - A - F, F being the fiat fee of
\* the normalised receipt (0 for an exception receipt), whatever the status.
C1_SimulatedBalanceAfterBet ==
    \A p \in SoloTasks :
        (HasReceipt(p) /\ task[p].simulated
            /\ BalanceUpdates(p)[1].amount = task[p].amountAtCall)
        => simulationBalance =
              Sub(Sub(task[p].balanceAtCall, task[p].amountAtCall),
                  FiatFeeOf(Receipt(p)))

C1_Witness ==
    \E p \in SoloTasks :
        /\ Returned(p) /\ HasReceipt(p) /\ task[p].simulated
        /\ BalanceUpdates(p)[1].amount = task[p].amountAtCall
        /\ Receipt(p).status = 0
        /\ ~Receipt(p).transactionExeption

\* C2 as stated: every finished bet invocation, also one whose contract call
\* rejected, has called saveRoundInHistory exactly once with one record of
\* its direction.
C2_HistoryOnceAlways ==
    \A p \in SoloTasks :
        (IsBet(p) /\ task[p].pc = "done")
        => /\ Len(HistoryCalls(p)) = 1
           /\ Len(HistoryCalls(p)[1].args[1]) = 1
           /\ HistoryCalls(p)[1].args[1][1].bet = BetOf(task[p].fn)

\* C2 amended: a bet invocation whose contract call resolved (any receipt)
\* has called saveRoundInHistory exactly once, with a list of exactly one
\* record whose bet field is its direction; one whose contract call has not
\* resolved or has rejected has not called it.
C2_HistoryOnceWhenResolved ==
    \A p \in SoloTasks :
        IsBet(p) =>
            IF HasReceipt(p)
            THEN /\ Len(HistoryCalls(p)) = 1
                 /\ Len(HistoryCalls(p)[1].args) = 1
                 /\ Len(HistoryCalls(p)[1].args[1]) = 1
                 /\ HistoryCalls(p)[1].args[1][1].bet = BetOf(task[p].fn)
                 /\ BetOf(task[p].fn) =
                        (IF task[p].trace[1].op = "betDown" THEN BET_DOWN ELSE BET_UP)
            ELSE HistoryCalls(p) = <<>>

C2_Witness ==
    \E p \in SoloTasks :
        /\ Returned(p) /\ HasReceipt(p)
        /\ task[p].fn = "betUpStrategy"
        /\ Receipt(p).transactionExeption

\* C3: a claimStrategy invocation that reads CLAIM_REWARDS as false calls
\* neither isClaimableRound nor claimRewards and returns {status: 0,
\* txGasFee: 0}.
C3_ClaimDisabled ==
    \A p \in SoloTasks :
        (IsClaim(p) /\ ~task[p].claimRewardsAtCall)
        => /\ ContractCalls(p) = <<>>
           /\ Returned(p)
           /\ task[p].result = [status |-> 0, txGasFee |-> Zero]

C3_Witness ==
    \E p \in SoloTasks :
        IsClaim(p) /\ ~task[p].claimRewardsAtCall /\ task[p].pc = "done"

\* C4: a claimStrategy invocation that reads CLAIM_REWARDS as true and whose
\* isClaimableRound resolves to false returns {status: 0, txGasFee: 0} and
\* never calls claimRewards.
C4_NotClaimable ==
    \A p \in SoloTasks :
        (HasClaimable(p) /\ task[p].claimRewardsAtCall /\ ~Claimable(p))
        => /\ Events(p, {"claimRewards"}) = <<>>
           /\ Returned(p)
           /\ task[p].result = [status |-> 0, txGasFee |-> Zero]

C4_Witness ==
    \E p \in SoloTasks :
        HasClaimable(p) /\ task[p].claimRewardsAtCall /\ ~Claimable(p)

\* C5: a claimStrategy invocation that reads CLAIM_REWARDS as true and whose
\* isClaimableRound resolves to true calls claimRewards exactly once, with
\* the one-element list [epoch] of its own epoch, and returns the value
\* claimRewards resolved with, unchanged.
C5_ClaimPassesThrough ==
    \A p \in SoloTasks :
        (HasClaimable(p) /\ task[p].claimRewardsAtCall /\ Claimable(p))
        => /\ Len(Events(p, {"claimRewards"})) = 1
           /\ Events(p, {"claimRewards"})[1].args = << <<task[p].epoch>> >>
           /\ task[p].trace[1].args = <<task[p].epoch>>
           /\ Returned(p) => task[p].result = task[p].trace[4].value

C5_Witness ==
    \E p \in SoloTasks :
        /\ HasClaimable(p) /\ task[p].claimRewardsAtCall /\ Claimable(p)
        /\ Returned(p)
        /\ task[p].result.transactionExeption

\* the one record handed to saveRoundInHistory by a bet task with a receipt
SavedRecord(p) == HistoryCalls(p)[1].args[1][1]

\* C6: for a receipt whose transactionExeption field is true, with or without
\* gas fields, the normalised transaction has txGasFee 0 and betExecuted =
\* (status = 1); the history record carries txGasFee 0, and in simulation
\* mode the balance written is the balance read minus the stake alone.
C6_ExceptionReceipt ==
    \A p \in SoloTasks :
        (HasReceipt(p) /\ Receipt(p).transactionExeption)
        => /\ task[p].transaction =
                 [betExecuted |-> (Receipt(p).status = 1), txGasFee |-> Zero]
           /\ SavedRecord(p).txGasFee = Zero
           /\ SavedRecord(p).betExecuted = (Receipt(p).status = 1)
           /\ task[p].simulated =>
                 /\ BalanceUpdates(p)[1].value =
                        Sub(BalanceUpdates(p)[1].read, BalanceUpdates(p)[1].amount)
                 /\ simulationBalance = BalanceUpdates(p)[1].value

C6_Witness ==
    \E p \in SoloTasks :
        /\ HasReceipt(p) /\ Receipt(p).transactionExeption
        /\ Receipt(p) \in FullReceipts
        /\ Receipt(p).status = 1
        /\ task[p].simulated

\* C7: for a receipt with status 0 and transactionExeption false, betExecuted
\* is false and txGasFee is gasUsed * effectiveGasPrice / 10^18 (not 0); the
\* history record carries that fee, and in simulation mode the balance
\* written is the balance read minus the stake minus that fee in USD.
C7_RevertedReceipt ==
    \A p \in SoloTasks :
        (HasReceipt(p) /\ Receipt(p).status = 0 /\ ~Receipt(p).transactionExeption)
        => /\ task[p].transaction.betExecuted = FALSE
           /\ task[p].transaction.txGasFee = GasFeeOf(Receipt(p))
           /\ GasFeeOf(Receipt(p)) # Zero
           /\ SavedRecord(p).betExecuted = FALSE
           /\ SavedRecord(p).txGasFee = GasFeeOf(Receipt(p))
           /\ task[p].simulated =>
                 BalanceUpdates(p)[1].value =
                     Sub(Sub(BalanceUpdates(p)[1].read, BalanceUpdates(p)[1].amount),
                         FiatFeeOf(Receipt(p)))

C7_Witness ==
    \E p \in SoloTasks :
        /\ HasReceipt(p) /\ Receipt(p).status = 0 /\ ~Receipt(p).transactionExeption
        /\ task[p].simulated
        /\ Returned(p)

\* the receipt of the worked example: gasUsed 21000, effectiveGasPrice 5e9
IsExampleReceipt(r) ==
    /\ r.status = 1 /\ ~r.transactionExeption
    /\ r.gasUsed = Num(21000, 0)
    /\ r.effectiveGasPrice = Num(5, 9)

C9_RejectionPropagates ==
    \A p \in SoloTasks :
        (Events(p, {"rejected"}) # <<>>)
        => /\ Rejected(p)
           /\ ~Returned(p)
           /\ task[p].trace[Len(task[p].trace)].op = "rejected"
           /\ Len(Events(p, {"rejected"})) = 1

C9_Witness ==
    \E p \in SoloTasks :
        /\ HasReceipt(p)
        /\ Receipt(p).status = 1
        /\ Events(p, {"rejected"}) # <<>>

\* C10: two finished bet invocations of the same strategy on the same epoch,
\* the same configured bet amount and the same collaborator responses made
\* the same contract calls and the same history call and ended with the same
\* return value or rejection, whether or not either of them updated the
\* simulated balance.
C10_SimulationOnlyChangesBalance ==
    \A p, q \in Tasks :
        (/\ IsBet(p) /\ IsBet(q)
         /\ task[p].pc = "done" /\ task[q].pc = "done"
         /\ task[p].fn = task[q].fn
         /\ task[p].epoch = task[q].epoch
         /\ task[p].amountAtCall = task[q].amountAtCall
         /\ Responses(p) = Responses(q))
        => /\ ContractCalls(p) = ContractCalls(q)
           /\ HistoryCalls(p) = HistoryCalls(q)
           /\ task[p].outcome = task[q].outcome
           /\ task[p].result = task[q].result

C10_Witness ==
    \E p, q \in Tasks :
        /\ IsBet(p) /\ IsBet(q)
        /\ Returned(p) /\ Returned(q)
        /\ task[p].fn = task[q].fn
        /\ task[p].epoch = task[q].epoch
        /\ task[p].amountAtCall = task[q].amountAtCall
        /\ Responses(p) = Responses(q)
        /\ task[p].simulated /\ ~task[q].simulated
        /\ ~Receipt(p).transactionExeption

\* C11: a step taken while SIMULATION_MODE is false leaves the simulated
\* balance as it is, whichever invocations of betDownStrategy, betUpStrategy
\* and claimStrategy are in flight, and an invocation that evaluated the flag
\* as false has not called updateSimulationBalance.
C11_BalanceUntouchedOutsideSimulation ==
    [][/\ ~SIMULATION_MODE => simulationBalance' = simulationBalance
       /\ \A p \in Tasks :
            (~SIMULATION_MODE /\ task[p].pc = "awaitBet")
            => BalanceUpdates(p)' = <<>>]_vars

C11_Witness ==
    \E p, q \in Tasks :
        /\ HasReceipt(p) /\ ~task[p].simulated /\ Returned(p)
        /\ IsClaim(q) /\ Returned(q) /\ Len(task[q].trace) = 4
        /\ ~SIMULATION_MODE
        /\ simulationBalance = task[p].balanceAtCall

\* what the invocations that updated the balance have deducted from it: for
\* each, the stake it read and the fiat fee of its receipt
RECURSIVE BalanceLess(_, _)
BalanceLess(balance, ps) ==
    IF ps = {} THEN balance
    ELSE LET p == CHOOSE x \in ps : TRUE
             rest == BalanceLess(balance, ps \ {p})
         IN  IF HasReceipt(p) /\ task[p].simulated
             THEN Sub(Sub(rest, BalanceUpdates(p)[1].amount), FiatFeeOf(Receipt(p)))
             ELSE rest

\* p and q were both suspended on their contract call before either updated
\* the balance
Overlapped(p, q) ==
    /\ p # q
    /\ HasReceipt(p) /\ task[p].simulated
    /\ HasReceipt(q) /\ task[q].simulated
    /\ task[p].balanceAtCall = task[q].balanceAtCall

\* C12 as stated, for the interleavings it is about: two simulated bet
\* invocations that were in flight together and have both completed leave a
\* balance other than B minus every invocation's stake and fee.
C12_OverlapLosesUpdate ==
    \A p, q \in Tasks :
        (Overlapped(p, q) /\ Returned(p) /\ Returned(q))
        => simulationBalance # BalanceLess(ConcInitialBalance, Tasks)

\* C12 amended: the balance is read and written in one synchronous segment,
\* so under every interleaving the balance is B minus the stake and fee of
\* every invocation that updated it: no update is lost.
C12_NoLostUpdate ==
    simulationBalance = BalanceLess(ConcInitialBalance, Tasks)

C12_Witness ==
    \E p, q \in Tasks :
        /\ Overlapped(p, q) /\ Returned(p) /\ Returned(q)
        /\ ~Receipt(p).transactionExeption
        /\ ~Receipt(q).transactionExeption

\* C13: a bet invocation that returned has returned the betExecuted of the
\* record it handed to saveRoundInHistory, and both are (status = 1) of the
\* receipt of its contract call, whatever transactionExeption and the
\* simulation flag were.
C13_ReturnsBetExecuted ==
    \A p \in SoloTasks :
        (IsBet(p) /\ Returned(p))
        => /\ task[p].result = SavedRecord(p).betExecuted
           /\ task[p].result = (Receipt(p).status = 1)

C13_Witness ==
    \E p \in SoloTasks :
        /\ IsBet(p) /\ Returned(p)
        /\ Receipt(p).status = 1
        /\ Receipt(p).transactionExeption
        /\ task[p].simulated

\* positions of the events of the given kinds in the trace of p
Positions(p, ops) == {i \in 1..Len(task[p].trace) : task[p].trace[i].op \in ops}

\* C14: in a bet invocation the history append is started only after the
\* contract call has resolved and, in simulation mode, after the balance
\* update, which itself follows the resolution; it is started once the
\* contract call has resolved, for betExecuted true and false alike.
C14_EventOrder ==
    \A p \in SoloTasks :
        IsBet(p) =>
            /\ \A i \in Positions(p, {"saveRoundInHistory"}) :
                /\ \E j \in Positions(p, {"resolved"}) : j < i
                /\ task[p].simulated =>
                       \E k \in Positions(p, {"updateSimulationBalance"}) : k < i
            /\ \A k \in Positions(p, {"updateSimulationBalance"}) :
                /\ \E j \in Positions(p, {"resolved"}) : j < k
                /\ \A i \in Positions(p, {"saveRoundInHistory"}) : k < i
            /\ \A j \in Positions(p, {"resolved"}) :
                \E c \in Positions(p, {"betDown", "betUp"}) : c < j
            /\ HasReceipt(p) <=> Positions(p, {"saveRoundInHistory"}) # {}
            /\ HasReceipt(p) => (task[p].simulated <=> BalanceUpdates(p) # <<>>)

C14_Witness ==
    \E p \in SoloTasks :
        /\ HasReceipt(p) /\ task[p].simulated
        /\ ~task[p].transaction.betExecuted
        /\ Positions(p, {"saveRoundInHistory"}) # {}

\* C15: a bet invocation makes exactly one contract call, betDown for
\* betDownStrategy and betUp for betUpStrategy, with (cryptoBetAmount, epoch),
\* and makes no other after a receipt with status 0, an exception receipt or
\* a rejection.
C15_OneContractCall ==
    \A p \in SoloTasks :
        IsBet(p) =>
            /\ Len(ContractCalls(p)) = 1
            /\ ContractCalls(p)[1].op =
                  (IF task[p].fn = "betDownStrategy" THEN "betDown" ELSE "betUp")
            /\ ContractCalls(p)[1].args =
                  <<task[p].cryptoBetAmount, task[p].epoch>>

C15_Witness ==
    \E p \in SoloTasks :
        /\ task[p].fn = "betDownStrategy"
        /\ Rejected(p) /\ ~HasReceipt(p)

\* C16: of two bet invocations on the same epoch each makes its own contract
\* call for that epoch whatever the other is doing, each hands its own record
\* of that epoch to saveRoundInHistory once its contract call has resolved,
\* and when both have returned the history holds a record of each.
C16_NoDeduplication ==
    \A p, q \in Tasks :
        (p # q /\ IsBet(p) /\ IsBet(q) /\ task[p].epoch = task[q].epoch)
        => /\ Len(ContractCalls(p)) = 1
           /\ ContractCalls(p)[1].args[2] = task[p].epoch
           /\ HasReceipt(p) =>
                 /\ Len(HistoryCalls(p)) = 1
                 /\ SavedRecord(p).round = task[q].epoch
           /\ (Returned(p) /\ Returned(q)) =>
                 Len(Persisted(p) \o Persisted(q)) = 2

\* the invocation started second has returned while the one started first is
\* still suspended on its contract call
C16_Witness ==
    \E p, q \in Tasks :
        /\ p < q /\ IsBet(p) /\ IsBet(q)
        /\ task[p].epoch = task[q].epoch
        /\ task[p].pc = "awaitBet"
        /\ Returned(q)
        /\ Len(Persisted(q)) = 1

\* C17: at the step where a bet invocation resumes from its contract call,
\* the simulated balance changes, and the invocation calls
\* updateSimulationBalance, if and only if SIMULATION_MODE is true at that
\* step, whatever the flag was when the invocation was called or when another
\* invocation evaluated it.
C17_FlagReadAtResume ==
    [][\A p \in Tasks :
          (task[p].pc = "awaitBet" /\ task'[p].pc = "awaitHistory")
          => /\ (simulationBalance' # simulationBalance) <=> SIMULATION_MODE
             /\ (BalanceUpdates(p)' # <<>>) <=> SIMULATION_MODE
             /\ task'[p].simulated <=> SIMULATION_MODE]_vars

\* one invocation was called with the flag off and resumed with it on, and
\* another was called with it on and resumed with it off
C17_Witness ==
    \E p, q \in Tasks :
        /\ HasReceipt(p) /\ ~task[p].simulationModeAtCall
        /\ task[p].simulated /\ BalanceUpdates(p) # <<>>
        /\ HasReceipt(q) /\ task[q].simulationModeAtCall
        /\ ~task[q].simulated /\ BalanceUpdates(q) = <<>>

\* C18: a bet invocation whose contract call rejected has left the simulated
\* balance as it was and has called neither updateSimulationBalance nor
\* saveRoundInHistory; one whose contract call resolved and whose history
\* append rejected has no record in the history, and in simulation mode the
\* balance stays at what it was minus the stake and the fiat fee.
C18_RejectionEffects ==
    \A p \in SoloTasks :
        (IsBet(p) /\ Rejected(p)) =>
            IF ~HasReceipt(p)
            THEN /\ simulationBalance = task[p].balanceAtCall
                 /\ BalanceUpdates(p) = <<>>
                 /\ HistoryCalls(p) = <<>>
                 /\ Persisted(p) = <<>>
            ELSE /\ Persisted(p) = <<>>
                 /\ Len(HistoryCalls(p)) = 1
                 /\ task[p].simulated =>
                       /\ simulationBalance =
                             Sub(Sub(task[p].balanceAtCall,
                                     BalanceUpdates(p)[1].amount),
                                 FiatFeeOf(Receipt(p)))
                       /\ simulationBalance # task[p].balanceAtCall
                 /\ ~task[p].simulated =>
                       simulationBalance = task[p].balanceAtCall

C18_Witness ==
    \E p \in SoloTasks :
        /\ IsBet(p) /\ Rejected(p) /\ HasReceipt(p)
        /\ task[p].simulated
        /\ ~Receipt(p).transactionExeption
        /\ Receipt(p).status = 1

\* C19: in simulation mode the stake a bet invocation deducts from the
\* simulated balance is the amount whose conversion it submitted to the
\* contract and recorded as betAmount, also when the configured amount was
\* changed while the invocation waited for its contract call.
C19_DeductedStakeIsSubmittedStake ==
    \A p \in SoloTasks :
        (HasReceipt(p) /\ task[p].simulated)
        => /\ ContractCalls(p)[1].args[1] = task[p].cryptoBetAmount
           /\ SavedRecord(p).betAmount = task[p].cryptoBetAmount
           /\ BalanceUpdates(p)[1].amount = task[p].amountAtCall

\* C20: an invocation awaits at most two collaborator calls (the contract
\* call and the history append for a bet, the claimability check and the
\* claim for a claim) and gets at most two answers; while it waits for its
\* contract call it has not completed, has called neither
\* updateSimulationBalance nor saveRoundInHistory, and the balance is as it
\* was; and when every awaited call settles, an invocation that was started
\* eventually completes with a value or a rejection.
C20_TwoSuspensionsThenCompletes ==
    /\ [](\A p \in SoloTasks :
            /\ Len(ContractCalls(p)) + Len(HistoryCalls(p)) <= 2
            /\ Len(Responses(p)) <= 2
            /\ IsBet(p) => Len(ContractCalls(p)) = 1 /\ Len(HistoryCalls(p)) <= 1
            /\ IsClaim(p) => HistoryCalls(p) = <<>>
            /\ (task[p].pc = "done") <=> (task[p].outcome # "pending")
            /\ task[p].pc = "awaitBet" =>
                  /\ task[p].outcome = "pending"
                  /\ HistoryCalls(p) = <<>>
                  /\ BalanceUpdates(p) = <<>>
                  /\ simulationBalance = task[p].balanceAtCall)
    /\ \A p \in SoloTasks :
          (task[p].pc # "idle") ~> (task[p].pc = "done")

C20_Witness ==
    \E p \in SoloTasks :
        /\ IsBet(p) /\ Returned(p)
        /\ Len(ContractCalls(p)) + Len(HistoryCalls(p)) = 2
        /\ Len(Responses(p)) = 2
        /\ task[p].simulated

====
